---------------------------- MODULE Spec2Model ----------------------------
(***************************************************************************)
(* A model of the daily event log of basic-git-scraper-template:           *)
(*   src/daily_event_monitor.py  DailyEventMonitor, prev_day, next_day     *)
(*   src/script.py               EventMonitor, update_hopewell_quarry_data *)
(*                                                                         *)
(* Python objects live in a heap of dict objects and list objects, so that *)
(* two references to one object (the list returned by get, a mapping that  *)
(* was not copied) are visible as such.  An event is a 2-element Python    *)
(* sequence, a tuple when add builds it and a list when json.loads builds  *)
(* it; Python equality tells the two apart, JSON text does not.            *)
(***************************************************************************)
EXTENDS Integers, Sequences, FiniteSets, TLC

(***************************************************************************)
(* Bounds of the model.                                                    *)
(***************************************************************************)
\* the most events one mapping may hold (all its days together)
MaxEvents == 2
\* the most days the availability scan may query
MaxScanDays == 5
\* dict objects in the heap: the log's, the caller's and one being built
NumDicts == 3

(***************************************************************************)
(* Calendar (datetime.datetime and datetime.timedelta).                    *)
(***************************************************************************)
\* datetime.MINYEAR and datetime.MAXYEAR
MINYEAR == 1
MAXYEAR == 9999

\* Python's None where a (year, month, day) triple is expected
NoDate == <<0, 0, 0>>
\* date arithmetic left the supported years: OverflowError
DateOverflow == <<-1, -1, -1>>

IsLeap(year) == (year % 4 = 0 /\ year % 100 # 0) \/ year % 400 = 0

DaysInMonth(year, month) ==
    IF month = 2 THEN (IF IsLeap(year) THEN 29 ELSE 28)
    ELSE IF month \in {4, 6, 9, 11} THEN 30 ELSE 31

\* datetime.datetime(year=, month=, day=) does not raise ValueError
IsValidDate(year, month, day) ==
    /\ year \in MINYEAR..MAXYEAR
    /\ month \in 1..12
    /\ day \in 1..DaysInMonth(year, month)

\* next_day: None for an invalid date, else the date 24 hours later
next_day(year, month, day) ==
    IF ~IsValidDate(year, month, day) THEN NoDate
    ELSE IF day < DaysInMonth(year, month) THEN <<year, month, day + 1>>
    ELSE IF month < 12 THEN <<year, month + 1, 1>>
    ELSE IF year < MAXYEAR THEN <<year + 1, 1, 1>>
    ELSE DateOverflow

\* a variant of prev_day that takes every month to have 31 days
prev_dayMutant(year, month, day) ==
    IF ~IsValidDate(year, month, day) THEN NoDate
    ELSE IF day > 1 THEN <<year, month, day - 1>>
    ELSE IF month > 1 THEN <<year, month - 1, 31>>
    ELSE IF year > MINYEAR THEN <<year - 1, 12, 31>>
    ELSE DateOverflow

\* prev_day: None for an invalid date, else the date 24 hours earlier
prev_day(year, month, day) ==
    IF ~IsValidDate(year, month, day) THEN NoDate
    ELSE IF day > 1 THEN <<year, month, day - 1>>
    ELSE IF month > 1 THEN <<year, month - 1, DaysInMonth(year, month - 1)>>
    ELSE IF year > MINYEAR THEN <<year - 1, 12, 31>>
    ELSE DateOverflow

(***************************************************************************)
(* Inputs.                                                                 *)
(***************************************************************************)
\* datetime.datetime.now() when the program runs
Today == <<2024, 2, 28>>

\* date.toordinal(): the day's number, 1 for 1 January of year 1
DaysBeforeYear(y) ==
    (y - 1) * 365 + (y - 1) \div 4 - (y - 1) \div 100 + (y - 1) \div 400

DaysBeforeMonth(y, m) ==
    <<0, 31, 59, 90, 120, 151, 181, 212, 243, 273, 304, 334>>[m]
    + (IF m > 2 /\ IsLeap(y) THEN 1 ELSE 0)

ToOrdinal(date) ==
    DaysBeforeYear(date[1]) + DaysBeforeMonth(date[1], date[2]) + date[3]

\* Today and the days after it, in calendar order
Calendar ==
    << <<2024, 2, 28>>, <<2024, 2, 29>>, <<2024, 3, 1>>, <<2024, 3, 2>>,
       <<2024, 3, 3>>, <<2024, 3, 4>>, <<2024, 3, 5>>, <<2024, 3, 6>> >>

\* a day when the calendar is about to end, and the days from it to
\* datetime.max
LateToday == <<9999, 12, 28>>
LateCalendar ==
    << <<9999, 12, 28>>, <<9999, 12, 29>>, <<9999, 12, 30>>,
       <<9999, 12, 31>> >>

\* the days a scan of MaxScanDays days can reach from Today, and the days a
\* scan can reach from LateToday: the date keys a mapping of the model may
\* hold
KeySeq == SubSeq(Calendar, 1, MaxScanDays) \o LateCalendar
Dates == {KeySeq[i] : i \in 1..Len(KeySeq)}
\* the days the log's callers use
LogDates == {KeySeq[1], KeySeq[2]}
\* event values (DailyEventValueType)
Values == {"A", "B"}
\* renderings time_now() of daily_event_monitor.py can produce
\* ("%Y-%m-%d %I:%M%p"), and one of them for a clock that stands
Times == {"2024-02-28 09:00AM", "2024-02-28 09:01AM"}
FrozenClock == {"2024-02-28 09:00AM"}
\* a rendering time_now() of script.py can produce ("%I:%M%p")
ScanClock == {"09:00AM"}
\* file names: the log's callers' and the scan driver's (script.py:239)
LogPath == "data/log.json"
ScanPath == "data/hopewell_quarry_data.json"
Paths == {LogPath, ScanPath}

\* Python's None for an optional file name (falsy, like the empty string)
NoPath == "<None>"
\* Python's None where a dict reference is expected, and any JSON value that
\* is neither null nor an object (an array, a number, a string)
PyNone == 0
NonMapping == -1
\* "this key is not in the dict"
NoList == 0
NoRef == 0

DictIds == 1..NumDicts
\* list objects in the heap: two mappings' worth, the caller's list, and
\* the lists of a mapping being built
ListIds == 1..(3 * Len(KeySeq) + 1)

(***************************************************************************)
(* State.                                                                  *)
(***************************************************************************)
VARIABLES
    dicts,        \* heap: DictIds -> [Dates -> ListIds \cup {NoList}]
    lists,        \* heap: ListIds -> sequence of events
    data,         \* self._data: a DictId, PyNone or NonMapping
    filename,     \* self._filename: a path or NoPath
    files,        \* the file system: Paths -> file content
    callerDict,   \* a mapping the caller holds (DictId or NoRef)
    callerList,   \* a sequence the caller holds (ListId or NoRef)
    call,         \* the last call made and what it returned or raised
    pc,           \* script.py: where the driver is
    year, month, day,       \* update_hopewell_quarry_data: the day to query
    contiguous_unbooked,    \* update_hopewell_quarry_data: its counter
    replies,      \* what lookup_hopewell_quarry returned, query by query
    eventMonitor  \* script.py: an EventMonitor given the same calls as the
                  \* log, and what its last call returned or raised

logVars == <<dicts, lists, data, filename, files, callerDict, callerList>>
scanVars ==
    <<pc, year, month, day, contiguous_unbooked, replies, eventMonitor>>
vars == <<logVars, call, scanVars>>

\* The state as one value, for the operators below.
World == [dicts |-> dicts, lists |-> lists, data |-> data,
          filename |-> filename, files |-> files,
          callerDict |-> callerDict, callerList |-> callerList]

(***************************************************************************)
(* Events and the date key.                                                *)
(***************************************************************************)
\* (time_now(), value): the tuple add appends
TupleEvent(t, v) == [kind |-> "tuple", ts |-> t, val |-> v]
\* [timestamp, value]: what json.loads builds from a 2-element array
ListEvent(t, v) == [kind |-> "list", ts |-> t, val |-> v]

\* "{}-{}-{}".format(year, month, day): the three numbers, undecorated and
\* unpadded, in this order
DateKey(yr, mon, dy) == <<yr, mon, dy>>

(***************************************************************************)
(* Heap.                                                                   *)
(***************************************************************************)
EmptyDict == [k \in Dates |-> NoList]

LiveDicts(w) == ({w.data, w.callerDict}) \cap DictIds
LiveLists(w) ==
    ({w.dicts[d][k] : d \in LiveDicts(w), k \in Dates} \cup {w.callerList})
        \cap ListIds

Min(S) == CHOOSE x \in S : \A y \in S : x <= y

\* dict() / list(): a new object is one no reference reaches
NewDict(w) == Min(DictIds \ LiveDicts(w))
NewList(w, taken) == Min(ListIds \ (LiveLists(w) \cup taken))

\* The references of a world in a fixed order: the log's mapping, then the
\* caller's; their lists key by key, then the caller's list.
DictOrder(w) ==
    (IF w.data \in DictIds THEN <<w.data>> ELSE <<>>)
    \o (IF w.callerDict \in DictIds /\ w.callerDict # w.data
        THEN <<w.callerDict>> ELSE <<>>)

RECURSIVE Distinct(_, _)
Distinct(s, seen) ==
    IF s = <<>> THEN <<>>
    ELSE IF Head(s) \in seen \/ Head(s) \notin ListIds
         THEN Distinct(Tail(s), seen)
         ELSE <<Head(s)>> \o Distinct(Tail(s), seen \cup {Head(s)})

RECURSIVE ListsOf(_, _)
ListsOf(w, ds) ==
    IF ds = <<>> THEN <<>>
    ELSE [i \in 1..Len(KeySeq) |-> w.dicts[Head(ds)][KeySeq[i]]]
         \o ListsOf(w, Tail(ds))

ListOrder(w) == Distinct(ListsOf(w, DictOrder(w)) \o <<w.callerList>>, {})

IndexOf(s, x) == CHOOSE i \in 1..Len(s) : s[i] = x

\* Objects no reference reaches are gone (reference counting), and the
\* identities of the others are their places in the order above: object
\* identity carries no other information.
Collect(w) ==
    LET ds == DictOrder(w)
        ls == ListOrder(w)
        dref(r) == IF r \in DictIds THEN IndexOf(ds, r) ELSE r
        lref(r) == IF r \in ListIds THEN IndexOf(ls, r) ELSE r
    IN [w EXCEPT
        !.dicts = [d \in DictIds |->
                     IF d <= Len(ds)
                     THEN [k \in Dates |-> lref(w.dicts[ds[d]][k])]
                     ELSE EmptyDict],
        !.lists = [l \in ListIds |->
                     IF l <= Len(ls) THEN w.lists[ls[l]] ELSE <<>>],
        !.data = dref(w.data),
        !.callerDict = dref(w.callerDict),
        !.callerList = lref(w.callerList)]

\* The value of a mapping: for each key, whether it is there and its events.
Member(w, d, k) ==
    IF w.dicts[d][k] = NoList
    THEN [present |-> FALSE, items |-> <<>>]
    ELSE [present |-> TRUE, items |-> w.lists[w.dicts[d][k]]]

DictValue(w, d) == [k \in Dates |-> Member(w, d, k)]

NoMembers == [k \in Dates |-> [present |-> FALSE, items |-> <<>>]]

\* The value of any reference that stands for a mapping, None or another
\* JSON value: what Python's == compares.
PyValue(w, ref) ==
    IF ref \in DictIds THEN [type |-> "dict", members |-> DictValue(w, ref)]
    ELSE IF ref = PyNone THEN [type |-> "None", members |-> NoMembers]
    ELSE [type |-> "other", members |-> NoMembers]

\* A new dict holding new lists with the given contents.
RECURSIVE BuildLists(_, _, _, _)
BuildLists(w, d, members, i) ==
    IF i > Len(KeySeq) THEN w
    ELSE LET k == KeySeq[i] IN
         IF ~members[k].present THEN BuildLists(w, d, members, i + 1)
         ELSE LET l == NewList(w, {w.dicts[d][j] : j \in Dates})
                  w1 == [w EXCEPT !.dicts[d][k] = l,
                                  !.lists[l] = members[k].items]
              IN BuildLists(w1, d, members, i + 1)

\* Returns <<world, id of the new dict>>; the new dict is not yet referenced.
BuildDict(w, members) ==
    LET d == NewDict(w)
        w0 == [w EXCEPT !.dicts[d] = EmptyDict]
    IN [w |-> BuildLists(w0, d, members, 1), ref |-> d]

\* copy.deepcopy(x)
deepcopy(w, ref) ==
    IF ref \in DictIds THEN BuildDict(w, DictValue(w, ref))
    ELSE [w |-> w, ref |-> ref]

(***************************************************************************)
(* JSON.                                                                   *)
(***************************************************************************)
\* json.dumps: a tuple and a list are both written as an array
DumpEvent(e) == <<e.ts, e.val>>
RECURSIVE DumpItems(_)
DumpItems(s) ==
    IF s = <<>> THEN <<>> ELSE <<DumpEvent(Head(s))>> \o DumpItems(Tail(s))

dumps(w, ref) ==
    IF ref \in DictIds
    THEN [type |-> "object",
          members |-> [k \in Dates |->
                         [present |-> Member(w, ref, k).present,
                          items |-> DumpItems(Member(w, ref, k).items)]]]
    ELSE IF ref = PyNone THEN [type |-> "null", members |-> NoMembers]
    ELSE [type |-> "array", members |-> NoMembers]

\* json.loads: an array is read as a list
LoadEvent(a) == ListEvent(a[1], a[2])
RECURSIVE LoadItems(_)
LoadItems(s) ==
    IF s = <<>> THEN <<>> ELSE <<LoadEvent(Head(s))>> \o LoadItems(Tail(s))

loads(w, doc) ==
    IF doc.type = "object"
    THEN BuildDict(w, [k \in Dates |->
                         [present |-> doc.members[k].present,
                          items |-> LoadItems(doc.members[k].items)]])
    ELSE IF doc.type = "null" THEN [w |-> w, ref |-> PyNone]
    ELSE [w |-> w, ref |-> NonMapping]

\* File contents.
Missing == [tag |-> "missing", doc |-> [type |-> "null", members |-> NoMembers]]
Garbage == [tag |-> "garbage", doc |-> [type |-> "null", members |-> NoMembers]]
JsonFile(doc) == [tag |-> "json", doc |-> doc]


(***************************************************************************)
(* DailyEventMonitor (src/daily_event_monitor.py).  Every operation takes  *)
(* the world and returns the world after it together with what it returned *)
(* or raised.                                                              *)
(***************************************************************************)
\* _lookup_day: ref is the dy's list; raised when self._data is neither a
\* dict nor None (it has no .get)
_lookup_day(w, yr, mon, dy) ==
    IF w.data = NonMapping
    THEN [w |-> w, raised |-> TRUE, ref |-> NoRef]
    ELSE LET w1 == IF w.data = PyNone
                   THEN LET d == NewDict(w)
                        IN [w EXCEPT !.dicts[d] = EmptyDict, !.data = d]
                   ELSE w
             key == DateKey(yr, mon, dy)
         IN IF w1.dicts[w1.data][key] # NoList
            THEN [w |-> w1, raised |-> FALSE, ref |-> w1.dicts[w1.data][key]]
            ELSE LET l == NewList(w1, {})
                 IN [w |-> [w1 EXCEPT !.dicts[w1.data][key] = l,
                                      !.lists[l] = <<>>],
                     raised |-> FALSE, ref |-> l]

\* a variant of get that finds the day's sequence and stores nothing
getMutant(w, yr, mon, dy) ==
    [w |-> w, raised |-> _lookup_day(w, yr, mon, dy).raised,
     ref |-> _lookup_day(w, yr, mon, dy).ref]

\* get
get(w, yr, mon, dy) == _lookup_day(w, yr, mon, dy)

\* a variant of the test below that forgets the ignore_repeat flag
IsRepeatMutant(s, value, ignore_repeat) ==
    Len(s) > 0 /\ s[Len(s)].val = value

\* a variant of the test below that looks at the day's first event
IsRepeatOfFirstMutant(s, value, ignore_repeat) ==
    ignore_repeat /\ Len(s) > 0 /\ s[1].val = value

\* the test of line 163: is this add a repeat to be ignored
IsRepeat(s, value, ignore_repeat) ==
    ignore_repeat /\ Len(s) > 0 /\ s[Len(s)].val = value

\* a variant of add that puts the new event first
addMutant(w, yr, mon, dy, value, ignore_repeat, now) ==
    LET r == _lookup_day(w, yr, mon, dy) IN
    IF r.raised THEN [w |-> r.w, ret |-> "AttributeError"]
    ELSE IF IsRepeat(r.w.lists[r.ref], value, ignore_repeat)
    THEN [w |-> r.w, ret |-> "False"]
    ELSE [w |-> [r.w EXCEPT !.lists[r.ref] =
                                <<TupleEvent(now, value)>> \o @],
          ret |-> "True"]

\* add; now is what time_now() renders at the call
add(w, yr, mon, dy, value, ignore_repeat, now) ==
    LET r == _lookup_day(w, yr, mon, dy) IN
    IF r.raised THEN [w |-> r.w, ret |-> "AttributeError"]
    ELSE IF IsRepeat(r.w.lists[r.ref], value, ignore_repeat)
    THEN [w |-> r.w, ret |-> "False"]
    ELSE [w |-> [r.w EXCEPT !.lists[r.ref] =
                                Append(@, TupleEvent(now, value))],
          ret |-> "True"]

\* filename or self._filename
PathOr(arg, w) == IF arg # NoPath THEN arg ELSE w.filename

\* a variant of the step below that does not record the path
RememberOnLoadMutant(w, path) == w

\* where load records the path: before the file is opened (line 198)
RememberOnLoad(w, path) == [w EXCEPT !.filename = path]

\* a variant of the step below that keeps the days the document lacks
StoreLoadedMutant(w, doc) ==
    LET r == loads(w, doc) IN
    IF r.ref \in DictIds /\ w.data \in DictIds
    THEN [r.w EXCEPT !.data = r.ref,
                     !.dicts[r.ref] =
                        [k \in Dates |->
                           IF r.w.dicts[r.ref][k] # NoList
                           THEN r.w.dicts[r.ref][k]
                           ELSE w.dicts[w.data][k]]]
    ELSE [r.w EXCEPT !.data = r.ref]

\* what load does with a parsed document (line 204)
StoreLoaded(w, doc) ==
    LET r == loads(w, doc) IN [r.w EXCEPT !.data = r.ref]

\* a variant of the step below that empties the log
LoadFailedMutant(w) ==
    LET d == NewDict(w) IN [w EXCEPT !.dicts[d] = EmptyDict, !.data = d]

\* what load does when open() or json.loads() raises (lines 206-209)
LoadFailed(w) == w

\* load
load(w, arg) ==
    LET path == PathOr(arg, w) IN
    IF path = NoPath THEN [w |-> w, ret |-> "ValueError"]
    ELSE LET w1 == RememberOnLoad(w, path) IN
         IF w1.files[path].tag # "json"
         THEN [w |-> LoadFailed(w1), ret |-> "False"]
         ELSE [w |-> StoreLoaded(w1, w1.files[path].doc), ret |-> "True"]

\* a variant of the guard below that never raises
SaveNeedsPathMutant(w, path) == FALSE

\* the guard of lines 218-219
SaveNeedsPath(w, path) == path = NoPath

\* save
save(w, arg) ==
    LET path == PathOr(arg, w) IN
    IF SaveNeedsPath(w, path) THEN [w |-> w, ret |-> "ValueError"]
    ELSE [w |-> [w EXCEPT !.files[path] = JsonFile(dumps(w, w.data)),
                          !.filename = path],
          ret |-> "None"]

\* the data property
DataAccessor(w) == deepcopy(w, w.data)

\* a variant of the copy below that keeps the caller's mapping itself
CopyInitialMutant(w, ref) == [w |-> w, ref |-> ref]

\* copy.deepcopy(data) of line 107
CopyInitial(w, ref) == deepcopy(w, ref)

\* __init__(filename, data): data is NoRef for None, else a mapping of the
\* caller's
__init__(w, fname, initial) ==
    LET d == NewDict(w)
        w0 == [w EXCEPT !.dicts[d] = EmptyDict, !.data = d,
                        !.filename = NoPath]
        w1 == IF initial # NoRef
              THEN LET c == CopyInitial(w0, initial)
                   IN [c.w EXCEPT !.data = c.ref]
              ELSE w0
    IN IF fname # NoPath THEN load(w1, fname).w ELSE w1


(***************************************************************************)
(* The caller: a program that holds a log, calls it, and keeps some of the *)
(* references it passed in or got back.                                    *)
(***************************************************************************)
Called(op, date, value, ignore_repeat, path, ret) ==
    [op |-> op, date |-> date, value |-> value,
     ignore_repeat |-> ignore_repeat, path |-> path, ret |-> ret]

\* The world after a step, unreachable objects dropped.
Becomes(w) ==
    LET c == Collect(w) IN
    /\ dicts' = c.dicts
    /\ lists' = c.lists
    /\ data' = c.data
    /\ filename' = c.filename
    /\ files' = c.files
    /\ callerDict' = c.callerDict
    /\ callerList' = c.callerList

\* No mapping, and no sequence, holds more events than the model's bound.
RECURSIVE Total(_, _, _)
Total(w, d, i) ==
    IF i > Len(KeySeq) THEN 0
    ELSE Len(Member(w, d, KeySeq[i]).items) + Total(w, d, i + 1)

WithinBound(w, n) ==
    /\ \A d \in LiveDicts(w) : Total(w, d, 1) <= n
    /\ \A l \in LiveLists(w) : Len(w.lists[l]) <= n

WithinBounds(w) == WithinBound(w, MaxEvents)

\* log.add(year, month, day, value, ignore_repeat), the log holding at most
\* n events after it
AddUpTo(n, date, value, ignore_repeat, now) ==
    LET r == add(World, date[1], date[2], date[3], value, ignore_repeat, now)
    IN /\ WithinBound(r.w, n)
       /\ Becomes(r.w)
       /\ call' = Called("add", date, value, ignore_repeat, NoPath, r.ret)
       /\ UNCHANGED scanVars

\* log.add(year, month, day, value, ignore_repeat)
Add(date, value, ignore_repeat, now) ==
    AddUpTo(MaxEvents, date, value, ignore_repeat, now)

\* log.get(year, month, day), the caller dropping what it returns
Get(date) ==
    LET r == get(World, date[1], date[2], date[3])
    IN /\ Becomes(r.w)
       /\ call' = Called("get", date, "", FALSE, NoPath,
                         IF r.raised THEN "AttributeError" ELSE "list")
       /\ UNCHANGED scanVars

\* x = log.get(year, month, day), the caller keeping x
GetKeep(date) ==
    LET r == get(World, date[1], date[2], date[3])
    IN /\ Becomes([r.w EXCEPT !.callerList =
                                 IF r.raised THEN @ ELSE r.ref])
       /\ call' = Called("get", date, "", FALSE, NoPath,
                         IF r.raised THEN "AttributeError" ELSE "list")
       /\ UNCHANGED scanVars

\* log.load(path) and log.load()
Load(path) ==
    LET r == load(World, path)
    IN /\ Becomes(r.w)
       /\ call' = Called("load", NoDate, "", FALSE, path, r.ret)
       /\ UNCHANGED scanVars

\* log.save(path) and log.save()
Save(path) ==
    LET r == save(World, path)
    IN /\ Becomes(r.w)
       /\ call' = Called("save", NoDate, "", FALSE, path, r.ret)
       /\ UNCHANGED scanVars

\* m = log.data, the caller keeping m
Data ==
    LET r == DataAccessor(World)
    IN /\ Becomes([r.w EXCEPT !.callerDict =
                                 IF r.ref \in DictIds THEN r.ref ELSE NoRef])
       /\ call' = Called("data", NoDate, "", FALSE, NoPath,
                         IF r.ref \in DictIds THEN "dict"
                         ELSE IF r.ref = PyNone THEN "None" ELSE "other")
       /\ UNCHANGED scanVars

\* x.append(e) on the sequence the caller holds
CallerAppend(value, now) ==
    /\ callerList \in ListIds
    /\ LET w == [World EXCEPT !.lists[callerList] =
                                  Append(@, TupleEvent(now, value))]
       IN WithinBounds(w) /\ Becomes(w)
    /\ call' = Called("caller_append", NoDate, value, FALSE, NoPath, "None")
    /\ UNCHANGED scanVars

\* x.clear() on the sequence the caller holds
CallerClear ==
    /\ callerList \in ListIds
    /\ lists[callerList] # <<>>
    /\ Becomes([World EXCEPT !.lists[callerList] = <<>>])
    /\ call' = Called("caller_clear", NoDate, "", FALSE, NoPath, "None")
    /\ UNCHANGED scanVars

\* m[key].append(e), or m[key] = [e] for a new key, on the caller's mapping
CallerPut(date, value, now) ==
    /\ callerDict \in DictIds
    /\ LET l == dicts[callerDict][date]
           n == NewList(World, {})
           w == IF l # NoList
                THEN [World EXCEPT !.lists[l] =
                                       Append(@, TupleEvent(now, value))]
                ELSE [World EXCEPT !.dicts[callerDict][date] = n,
                                   !.lists[n] = <<TupleEvent(now, value)>>]
       IN WithinBounds(w) /\ Becomes(w)
    /\ call' = Called("caller_put", date, value, FALSE, NoPath, "None")
    /\ UNCHANGED scanVars

\* del m[key] on the caller's mapping
CallerDel(date) ==
    /\ callerDict \in DictIds
    /\ dicts[callerDict][date] # NoList
    /\ Becomes([World EXCEPT !.dicts[callerDict][date] = NoList])
    /\ call' = Called("caller_del", date, "", FALSE, NoPath, "None")
    /\ UNCHANGED scanVars

(***************************************************************************)
(* Initial states.                                                         *)
(***************************************************************************)
\* a JSON object with one day holding the given arrays
OneDayDoc(date, items) ==
    [type |-> "object",
     members |-> [k \in Dates |->
                    IF k = date
                    THEN [present |-> TRUE, items |-> items]
                    ELSE [present |-> FALSE, items |-> <<>>]]]

\* a file an earlier run saved
SampleDoc == OneDayDoc(KeySeq[1], << <<"2024-02-28 09:00AM", "A">> >>)
NullDoc == [type |-> "null", members |-> NoMembers]
ArrayDoc == [type |-> "array", members |-> NoMembers]

\* what the log's file may hold when the program starts
InitialFiles ==
    {Missing, Garbage, JsonFile(SampleDoc), JsonFile(NullDoc),
     JsonFile(ArrayDoc)}

\* a file system holding f at path and nothing else
OnlyFile(path, f) == [p \in Paths |-> IF p = path THEN f ELSE Missing]

\* before anything is constructed
Blank(fs) ==
    [dicts |-> [d \in DictIds |-> EmptyDict],
     lists |-> [l \in ListIds |-> <<>>],
     data |-> PyNone, filename |-> NoPath, files |-> fs,
     callerDict |-> NoRef, callerList |-> NoRef]

StartsAs(w) ==
    LET c == Collect(w) IN
    /\ dicts = c.dicts
    /\ lists = c.lists
    /\ data = c.data
    /\ filename = c.filename
    /\ files = c.files
    /\ callerDict = c.callerDict
    /\ callerList = c.callerList

\* the mappings a caller may pass as data: {} and {day: [(time, value)]}
OneDayMapping ==
    [k \in Dates |->
        IF k = KeySeq[1]
        THEN [present |-> TRUE,
              items |-> <<TupleEvent("2024-02-28 09:00AM", "A")>>]
        ELSE [present |-> FALSE, items |-> <<>>]]

InitialMappings == {NoMembers, OneDayMapping}

\* DailyEventMonitor(filename=fname) when no data is given, else
\* m = {...}; DailyEventMonitor(filename=fname, data=m), the caller keeping
\* m or dropping it
Construct(fs, fname, given, m, keep) ==
    IF ~given THEN __init__(Blank(fs), fname, NoRef)
    ELSE LET b == BuildDict(Blank(fs), m)
             c == __init__([b.w EXCEPT !.callerDict = b.ref], fname, b.ref)
         IN IF keep THEN c ELSE [c EXCEPT !.callerDict = NoRef]

\* how the record of the constructor's call names its data argument
DataTag(given, m) ==
    IF ~given THEN "" ELSE IF m = NoMembers THEN "{}" ELSE "{day: [event]}"

\* no EventMonitor is driven alongside the log
NoMonitor == [w |-> Blank(OnlyFile(LogPath, Missing)), ret |-> ""]

\* the scan is not running
NoScan ==
    /\ pc = "idle"
    /\ year = Today[1] /\ month = Today[2] /\ day = Today[3]
    /\ contiguous_unbooked = 0
    /\ replies = <<>>
    /\ eventMonitor = NoMonitor

(***************************************************************************)
(* Spec: the log and its file.  DailyEventMonitor(filename, data), either  *)
(* argument given or not, then any add, get, load and save, the clock      *)
(* standing (AddSpec lets it run).                                         *)
(***************************************************************************)
Init ==
    /\ \E f \in InitialFiles, fname \in {NoPath, LogPath},
          given \in BOOLEAN, m \in InitialMappings :
        /\ StartsAs(Construct(OnlyFile(LogPath, f), fname, given, m, FALSE))
        /\ call = Called("__init__", NoDate, DataTag(given, m), FALSE,
                         fname, "None")
    /\ NoScan

Next ==
    \/ \E d \in LogDates, v \in Values, i \in BOOLEAN, t \in FrozenClock :
          Add(d, v, i, t)
    \/ \E d \in LogDates : Get(d)
    \/ \E p \in {LogPath, NoPath} : Load(p)
    \/ \E p \in {LogPath, NoPath} : Save(p)

Spec == Init /\ [][Next]_vars

(***************************************************************************)
(* AddSpec: the log in memory, the clock running.  A log that is empty or  *)
(* was loaded from an earlier run's file, then any add and get.            *)
(***************************************************************************)
AddInit ==
    /\ \E f \in {Missing, JsonFile(SampleDoc)} :
        /\ StartsAs(__init__(Blank(OnlyFile(LogPath, f)), LogPath, NoRef))
        /\ call = Called("__init__", NoDate, "", FALSE, LogPath, "None")
    /\ NoScan

AddNext ==
    \/ \E d \in LogDates, v \in Values, i \in BOOLEAN, t \in Times :
          Add(d, v, i, t)
    \/ \E d \in LogDates : Get(d)

AddSpec == AddInit /\ [][AddNext]_vars

(***************************************************************************)
(* AliasSpec: the log and the references its caller holds.  The caller     *)
(* builds a mapping m, constructs DailyEventMonitor(data=m), then calls    *)
(* add, get and data, and changes what it holds.                           *)
(***************************************************************************)
AliasInit ==
    /\ \E m \in InitialMappings :
         /\ StartsAs(Construct(OnlyFile(LogPath, Missing), NoPath,
                               TRUE, m, TRUE))
         /\ call = Called("__init__", NoDate, DataTag(TRUE, m), FALSE,
                          NoPath, "None")
    /\ NoScan

AliasNext ==
    \/ \E d \in LogDates, t \in FrozenClock : Add(d, "A", TRUE, t)
    \/ \E d \in LogDates : GetKeep(d)
    \/ Data
    \/ \E t \in FrozenClock : CallerAppend("B", t)
    \/ CallerClear
    \/ \E d \in LogDates, t \in FrozenClock : CallerPut(d, "B", t)
    \/ \E d \in LogDates : CallerDel(d)

AliasSpec == AliasInit /\ [][AliasNext]_vars

(***************************************************************************)
(* RepeatSpec: a log that starts empty, with a file name and no file, and  *)
(* whose caller always passes ignore_repeat=True; then any add, get,       *)
(* save() and load(), so that what is loaded was written by this log.      *)
(* The log may hold two events more than in the other specifications, so   *)
(* that a value can come back after another one.                           *)
(***************************************************************************)
RepeatInit ==
    /\ StartsAs(__init__(Blank(OnlyFile(LogPath, Missing)), LogPath, NoRef))
    /\ call = Called("__init__", NoDate, "", FALSE, LogPath, "None")
    /\ NoScan

RepeatNext ==
    \/ \E d \in LogDates, v \in Values, t \in FrozenClock :
          AddUpTo(MaxEvents + 2, d, v, TRUE, t)
    \/ \E d \in LogDates : Get(d)
    \/ Load(NoPath)
    \/ Save(NoPath)

RepeatSpec == RepeatInit /\ [][RepeatNext]_vars

(***************************************************************************)
(* EventMonitor (src/script.py): the log the scan driver uses.             *)
(***************************************************************************)
EM_lookup_day(w, yr, mon, dy) ==
    IF w.data = NonMapping
    THEN [w |-> w, raised |-> TRUE, ref |-> NoRef]
    ELSE LET w1 == IF w.data = PyNone
                   THEN LET d == NewDict(w)
                        IN [w EXCEPT !.dicts[d] = EmptyDict, !.data = d]
                   ELSE w
             key == DateKey(yr, mon, dy)
         IN IF w1.dicts[w1.data][key] # NoList
            THEN [w |-> w1, raised |-> FALSE, ref |-> w1.dicts[w1.data][key]]
            ELSE LET l == NewList(w1, {})
                 IN [w |-> [w1 EXCEPT !.dicts[w1.data][key] = l,
                                      !.lists[l] = <<>>],
                     raised |-> FALSE, ref |-> l]

\* a variant of add that never ignores a repeat
EM_addMutant(w, yr, mon, dy, value, now) ==
    LET r == EM_lookup_day(w, yr, mon, dy) IN
    IF r.raised THEN [w |-> r.w, ret |-> "AttributeError"]
    ELSE [w |-> [r.w EXCEPT !.lists[r.ref] =
                                Append(@, TupleEvent(now, value))],
          ret |-> "True"]

\* add: a repeat of the day's last value is always ignored
EM_add(w, yr, mon, dy, value, now) ==
    LET r == EM_lookup_day(w, yr, mon, dy) IN
    IF r.raised THEN [w |-> r.w, ret |-> "AttributeError"]
    ELSE LET s == r.w.lists[r.ref] IN
         IF Len(s) > 0 /\ s[Len(s)].val = value
         THEN [w |-> r.w, ret |-> "False"]
         ELSE [w |-> [r.w EXCEPT !.lists[r.ref] =
                                     Append(@, TupleEvent(now, value))],
               ret |-> "True"]

\* a variant of load that remembers the path only when the read succeeds
EM_loadMutant(w, arg) ==
    LET path == IF arg # NoPath THEN arg ELSE w.filename IN
    IF path = NoPath THEN [w |-> w, ret |-> "ValueError"]
    ELSE IF w.files[path].tag # "json"
         THEN [w |-> w, ret |-> "False"]
         ELSE LET r == loads(w, w.files[path].doc)
              IN [w |-> [r.w EXCEPT !.data = r.ref, !.filename = path],
                  ret |-> "True"]

\* load
EM_load(w, arg) ==
    LET path == IF arg # NoPath THEN arg ELSE w.filename IN
    IF path = NoPath THEN [w |-> w, ret |-> "ValueError"]
    ELSE LET w1 == [w EXCEPT !.filename = path] IN
         IF w1.files[path].tag # "json"
         THEN [w |-> w1, ret |-> "False"]
         ELSE LET r == loads(w1, w1.files[path].doc)
              IN [w |-> [r.w EXCEPT !.data = r.ref, !.filename = path],
                  ret |-> "True"]

EM_save(w, arg) ==
    LET path == IF arg # NoPath THEN arg ELSE w.filename IN
    IF path = NoPath THEN [w |-> w, ret |-> "ValueError"]
    ELSE [w |-> [w EXCEPT !.files[path] = JsonFile(dumps(w, w.data)),
                          !.filename = path],
          ret |-> "None"]

EM_init(w, fname, initial) ==
    LET d == NewDict(w)
        w0 == [w EXCEPT !.dicts[d] = EmptyDict, !.data = d,
                        !.filename = NoPath]
        w1 == IF initial # NoRef
              THEN LET c == deepcopy(w0, initial)
                   IN [c.w EXCEPT !.data = c.ref]
              ELSE w0
    IN IF fname # NoPath THEN EM_load(w1, fname).w ELSE w1

(***************************************************************************)
(* TwinSpec: a DailyEventMonitor and an EventMonitor, each with a file     *)
(* system of its own that starts with the same content, constructed with   *)
(* the same arguments and then given the same calls of add, load and save, *)
(* the DailyEventMonitor with ignore_repeat=True.  Each renders the time   *)
(* with its own time_now().                                                *)
(***************************************************************************)
\* EventMonitor(filename=fname, data=m), or EventMonitor(filename=fname)
EM_Construct(fs, fname, given, m) ==
    IF ~given THEN EM_init(Blank(fs), fname, NoRef)
    ELSE LET b == BuildDict(Blank(fs), m)
             c == EM_init([b.w EXCEPT !.callerDict = b.ref], fname, b.ref)
         IN [c EXCEPT !.callerDict = NoRef]

\* the EventMonitor after a call, and what the call returned or raised
Monitored(r) == [w |-> Collect(r.w), ret |-> r.ret]

\* log.add(year, month, day, value, True) and
\* monitor.add(year, month, day, value)
TwinAdd(date, value, now, em_now) ==
    LET r == add(World, date[1], date[2], date[3], value, TRUE, now)
        e == EM_add(eventMonitor.w, date[1], date[2], date[3], value,
                    em_now)
    IN /\ WithinBounds(r.w)
       /\ WithinBounds(e.w)
       /\ Becomes(r.w)
       /\ call' = Called("add", date, value, TRUE, NoPath, r.ret)
       /\ eventMonitor' = Monitored(e)
       /\ UNCHANGED <<pc, year, month, day, contiguous_unbooked, replies>>

\* log.load(path) and monitor.load(path)
TwinLoad(path) ==
    LET r == load(World, path)
        e == EM_load(eventMonitor.w, path)
    IN /\ Becomes(r.w)
       /\ call' = Called("load", NoDate, "", FALSE, path, r.ret)
       /\ eventMonitor' = Monitored(e)
       /\ UNCHANGED <<pc, year, month, day, contiguous_unbooked, replies>>

\* log.save(path) and monitor.save(path)
TwinSave(path) ==
    LET r == save(World, path)
        e == EM_save(eventMonitor.w, path)
    IN /\ Becomes(r.w)
       /\ call' = Called("save", NoDate, "", FALSE, path, r.ret)
       /\ eventMonitor' = Monitored(e)
       /\ UNCHANGED <<pc, year, month, day, contiguous_unbooked, replies>>

TwinInit ==
    /\ \E f \in InitialFiles, fname \in {NoPath, LogPath},
          given \in BOOLEAN, m \in InitialMappings :
        /\ StartsAs(Construct(OnlyFile(LogPath, f), fname, given, m, FALSE))
        /\ call = Called("__init__", NoDate, DataTag(given, m), FALSE,
                         fname, "None")
        /\ eventMonitor =
             [w |-> Collect(EM_Construct(OnlyFile(LogPath, f), fname,
                                         given, m)),
              ret |-> "None"]
    /\ pc = "idle"
    /\ year = Today[1] /\ month = Today[2] /\ day = Today[3]
    /\ contiguous_unbooked = 0
    /\ replies = <<>>

TwinNext ==
    \/ \E d \in LogDates, v \in Values, t \in FrozenClock,
          u \in ScanClock : TwinAdd(d, v, t, u)
    \/ \E p \in {LogPath, NoPath} : TwinLoad(p)
    \/ \E p \in {LogPath, NoPath} : TwinSave(p)

TwinSpec == TwinInit /\ [][TwinNext]_vars

(***************************************************************************)
(* The availability scan (src/script.py, update_hopewell_quarry_data and   *)
(* the module's last three lines).                                         *)
(***************************************************************************)
HOPEWELL_QUARRY_MAX_OPEN == 300

\* lookup_etix_event returned None: the request failed, or the reply was []
NoReply == -1
\* the open-slot counts a reply may carry
Opens == {HOPEWELL_QUARRY_MAX_OPEN, HOPEWELL_QUARRY_MAX_OPEN \div 2}

\* the loop's variables as one value
Scan == [year |-> year, month |-> month, day |-> day,
         contiguous_unbooked |-> contiguous_unbooked]

\* next_day(...) raises OverflowError: the day is datetime.max's
Overflows(s) == next_day(s.year, s.month, s.day) = DateOverflow

\* a variant of the step below that stays on the day
AdvanceMutant(s) == s

\* (year, month, day) = next_day(...); nothing is assigned when it raises
Advance(s) ==
    LET n == next_day(s.year, s.month, s.day)
    IN IF n = DateOverflow THEN s
       ELSE [s EXCEPT !.year = n[1], !.month = n[2], !.day = n[3]]

\* a variant of the step below that also resets the counter
SkipDayMutant(s) ==
    Advance([s EXCEPT !.contiguous_unbooked = 0])

\* lines 224-226: the query returned None
SkipDay(s) == Advance(s)

\* lines 228-230
CountDay(s, query_open) ==
    IF query_open = HOPEWELL_QUARRY_MAX_OPEN
    THEN [s EXCEPT !.contiguous_unbooked = @ + 1]
    ELSE s

\* lines 228-234: the query returned a count
RecordDay(w, s, query_open, now) ==
    LET s1 == CountDay(s, query_open)
        r == EM_add(w, s1.year, s1.month, s1.day, query_open, now)
    IN [w |-> r.w, ret |-> r.ret,
        s |-> IF r.ret = "AttributeError" THEN s1 ELSE Advance(s1)]

ScanBecomes(s) ==
    /\ year' = s.year
    /\ month' = s.month
    /\ day' = s.day
    /\ contiguous_unbooked' = s.contiguous_unbooked

Looping ==
    /\ pc = "scan"
    /\ contiguous_unbooked < 2
    /\ Len(replies) < MaxScanDays

\* one turn of the loop, the query returning None
QueryNone ==
    /\ Looping
    /\ ScanBecomes(SkipDay(Scan))
    /\ replies' = Append(replies, NoReply)
    /\ call' = Called("lookup", <<year, month, day>>, 0, FALSE, NoPath,
                      "None")
    /\ pc' = IF Overflows(Scan) THEN "crashed" ELSE pc
    /\ UNCHANGED <<logVars, eventMonitor>>

\* one turn of the loop, the query returning a count
QueryOpen(query_open, now) ==
    /\ Looping
    /\ LET r == RecordDay(World, Scan, query_open, now)
       IN /\ Becomes(r.w)
          /\ ScanBecomes(r.s)
          /\ call' = Called("add", <<year, month, day>>, query_open, TRUE,
                            NoPath, r.ret)
          /\ pc' = IF r.ret = "AttributeError" \/ Overflows(Scan)
                   THEN "crashed" ELSE pc
    /\ replies' = Append(replies, query_open)
    /\ UNCHANGED eventMonitor

\* one turn of the loop, lookup_etix_event raising (a reply that is not
\* JSON, or has several elements, or no "open")
QueryRaises ==
    /\ Looping
    /\ pc' = "crashed"
    /\ call' = Called("lookup", <<year, month, day>>, 0, FALSE, NoPath,
                      "Exception")
    /\ UNCHANGED <<logVars, year, month, day, contiguous_unbooked, replies,
                   eventMonitor>>

\* the loop's test fails: return data
ScanReturn ==
    /\ pc = "scan"
    /\ ~(contiguous_unbooked < 2)
    /\ pc' = "returned"
    /\ UNCHANGED <<logVars, call, year, month, day, contiguous_unbooked,
                   replies, eventMonitor>>

\* hopewell_quarry_data.save()
DriverSave ==
    /\ pc = "returned"
    /\ LET r == EM_save(World, NoPath)
       IN /\ Becomes(r.w)
          /\ call' = Called("save", NoDate, 0, FALSE, NoPath, r.ret)
          /\ pc' = IF r.ret = "None" THEN "saved" ELSE "crashed"
    /\ UNCHANGED <<year, month, day, contiguous_unbooked, replies,
                   eventMonitor>>

\* what the driver's file may hold when the program starts: nothing, or an
\* earlier run's record of today
InitialScanFiles ==
    {Missing,
     JsonFile(OneDayDoc(Today,
                        << <<"09:00AM", HOPEWELL_QUARRY_MAX_OPEN>> >>))}

\* hopewell_quarry_data = EventMonitor("data/hopewell_quarry_data.json"),
\* then the first lines of update_hopewell_quarry_data
ScanInit ==
    /\ \E f \in InitialScanFiles :
         StartsAs(EM_init(Blank(OnlyFile(ScanPath, f)), ScanPath, NoRef))
    /\ call = Called("__init__", NoDate, 0, FALSE, ScanPath, "None")
    /\ pc = "scan"
    /\ year = Today[1] /\ month = Today[2] /\ day = Today[3]
    /\ contiguous_unbooked = 0
    /\ replies = <<>>
    /\ eventMonitor = NoMonitor

ScanNext ==
    \/ QueryNone
    \/ \E o \in Opens, t \in ScanClock : QueryOpen(o, t)
    \/ QueryRaises
    \/ ScanReturn
    \/ DriverSave

ScanSpec == ScanInit /\ [][ScanNext]_vars

(***************************************************************************)
(* LateScanSpec: the same driver started when datetime.now() is LateToday, *)
(* four days before the calendar ends, every reply well formed.  The loop  *)
(* runs as the code runs it: fewer than MaxScanDays days are left.         *)
(***************************************************************************)
LateScanInit ==
    /\ \E f \in InitialScanFiles :
         StartsAs(EM_init(Blank(OnlyFile(ScanPath, f)), ScanPath, NoRef))
    /\ call = Called("__init__", NoDate, 0, FALSE, ScanPath, "None")
    /\ pc = "scan"
    /\ year = LateToday[1] /\ month = LateToday[2] /\ day = LateToday[3]
    /\ contiguous_unbooked = 0
    /\ replies = <<>>
    /\ eventMonitor = NoMonitor

LateScanNext ==
    \/ QueryNone
    \/ \E o \in Opens, t \in ScanClock : QueryOpen(o, t)
    \/ ScanReturn
    \/ DriverSave

LateScanSpec == LateScanInit /\ [][LateScanNext]_vars

(***************************************************************************)
(* DaySpec: prev_day and next_day called on a triple of integers, then     *)
(* one of them called on the triple the first call returned.               *)
(***************************************************************************)
\* the arguments tried: the first and last years of datetime and the years
\* outside them, leap and common years, every month and the numbers next
\* to them, the days on which a month can end and the numbers next to them
DayYears == {0, MINYEAR, 1900, 2000, 2023, 2024, MAXYEAR, MAXYEAR + 1}
DayMonths == 0..13
DayDays == {0, 1, 2, 28, 29, 30, 31, 32}

\* what a call of prev_day or next_day did
DayResult(r) ==
    IF r = NoDate THEN "None"
    ELSE IF r = DateOverflow THEN "OverflowError" ELSE "tuple"

\* (year, month, day) = f(year, month, day), where r is what f returns
DayCall(name, r) ==
    /\ pc \in {"start", "after_prev_day", "after_next_day"}
    /\ call' = Called(name, <<year, month, day>>, "", FALSE, NoPath,
                      DayResult(r))
    /\ IF DayResult(r) = "tuple"
       THEN /\ year' = r[1] /\ month' = r[2] /\ day' = r[3]
            /\ pc' = IF pc = "start" THEN "after_" \o name
                     ELSE pc \o "_" \o name
       ELSE /\ UNCHANGED <<year, month, day>>
            /\ pc' = "stopped"
    /\ UNCHANGED <<logVars, contiguous_unbooked, replies, eventMonitor>>

PrevDay == DayCall("prev_day", prev_day(year, month, day))
NextDay == DayCall("next_day", next_day(year, month, day))

DayInit ==
    /\ StartsAs(Blank(OnlyFile(LogPath, Missing)))
    /\ call = Called("", NoDate, "", FALSE, NoPath, "")
    /\ pc = "start"
    /\ year \in DayYears /\ month \in DayMonths /\ day \in DayDays
    /\ contiguous_unbooked = 0
    /\ replies = <<>>
    /\ eventMonitor = NoMonitor

DayNext == PrevDay \/ NextDay

DaySpec == DayInit /\ [][DayNext]_vars

(***************************************************************************)
(* What the properties below speak of.                                     *)
(***************************************************************************)
\* the log's entries, as a value
LogValue == PyValue(World, data)

\* the events the log holds for a day (none when the day has no key)
Items(date) ==
    IF data \in DictIds THEN Member(World, data, date).items ELSE <<>>

\* the caller's mapping and the caller's sequence, as values
CallerValue == PyValue(World, callerDict)
CallerItems == IF callerList \in ListIds THEN lists[callerList] ELSE <<>>

\* the log holds at least one event
LogHasEvents == \E k \in Dates : Items(k) # <<>>

(***************************************************************************)
(* C1 (AddSpec).  add returns False and leaves the day's sequence as it    *)
(* was exactly when ignore_repeat is true, the sequence is non-empty and   *)
(* its last event's value equals the value given, whatever the             *)
(* timestamps; otherwise it appends one event carrying the value at the    *)
(* end of the day's sequence and returns True.                             *)
(***************************************************************************)
C1_AddContract ==
    [][\A date \in LogDates, value \in Values, ignore_repeat \in BOOLEAN :
         (/\ call'.op = "add"
          /\ call'.date = date
          /\ call'.value = value
          /\ call'.ignore_repeat = ignore_repeat)
         => LET before == Items(date)
                after == Items(date)'
                repeat == /\ ignore_repeat
                          /\ before # <<>>
                          /\ before[Len(before)].val = value
            IN /\ (call'.ret = "False") <=> repeat
               /\ repeat => after = before
               /\ ~repeat =>
                    /\ call'.ret = "True"
                    /\ Len(after) = Len(before) + 1
                    /\ SubSeq(after, 1, Len(before)) = before
                    /\ after[Len(after)].val = value]_vars

\* the same value was added twice in a row with ignore_repeat: one event
\* is stored, and the second add returned False
C1_Witness ==
    /\ call.op = "add"
    /\ call.ignore_repeat
    /\ call.ret = "False"
    /\ Len(Items(call.date)) = 1
    /\ Items(call.date)[1].kind = "tuple"

(***************************************************************************)
(* C2 (ScanSpec).  The scan ends only when the two most recent             *)
(* successfully queried days both reported the maximum count.              *)
(***************************************************************************)
IsCount(r) == r # NoReply

C2_StopsOnTwoConsecutive ==
    pc \in {"returned", "saved"} =>
        LET counts == SelectSeq(replies, IsCount)
        IN /\ Len(counts) >= 2
           /\ counts[Len(counts)] = HOPEWELL_QUARRY_MAX_OPEN
           /\ counts[Len(counts) - 1] = HOPEWELL_QUARRY_MAX_OPEN

(***************************************************************************)
(* C3 (Spec).  A load whose file is missing, unreadable or not JSON        *)
(* returns False, raises nothing and leaves the entries as they were: an   *)
(* empty mapping for a log constructed without data, the copy of the       *)
(* initial mapping for a log constructed with data and a file name.        *)
(***************************************************************************)
\* the path a load or save with this argument uses
Resolved(arg) == IF arg # NoPath THEN arg ELSE filename

DataOfTag(tag) ==
    IF tag = "{day: [event]}" THEN OneDayMapping ELSE NoMembers

C3_FailedLoad ==
    /\ (call.op = "__init__" /\ call.path # NoPath
            /\ files[call.path].tag # "json")
        => LogValue = [type |-> "dict", members |-> DataOfTag(call.value)]
    /\ [][\A p \in Paths :
            (/\ call'.op = "load"
             /\ Resolved(call'.path) = p
             /\ files[p].tag # "json")
            => /\ call'.ret = "False"
               /\ LogValue' = LogValue]_vars

\* a load failed on a log that holds events
C3_Witness ==
    /\ call.op = "load"
    /\ call.ret = "False"
    /\ LogHasEvents

(***************************************************************************)
(* C4 (Spec).  As claimed: a load that fails leaves the remembered path    *)
(* as it was before the call.                                              *)
(***************************************************************************)
C4_PathKeptOnFailure ==
    [][(call'.op = "load" /\ call'.ret = "False")
        => filename' = filename]_vars

(***************************************************************************)
(* C4 (Spec), amended.  load remembers the path it reads from as soon as   *)
(* it has one, before it opens the file: after a load that returns, True   *)
(* or False, the remembered path is the path given, or the one remembered  *)
(* before when none was given; only a load that raises the configuration   *)
(* error leaves the log without a path.                                    *)
(***************************************************************************)
C4_PathRemembered ==
    [][call'.op = "load"
        => IF call'.ret \in {"True", "False"}
           THEN filename' = Resolved(call'.path) /\ filename' # NoPath
           ELSE filename' = filename /\ filename = NoPath]_vars

\* a load of a given path failed, and the path is remembered
C4_Witness ==
    /\ call.op = "load"
    /\ call.ret = "False"
    /\ call.path = LogPath
    /\ filename = LogPath
    /\ files[LogPath].tag = "missing"

(***************************************************************************)
(* C5 (Spec).  save() and load() with no argument on a log with no         *)
(* remembered path raise ValueError, and change neither the entries, the   *)
(* remembered path nor any file.                                           *)
(***************************************************************************)
C5_NoPathRaises ==
    [][(/\ call'.op \in {"save", "load"}
        /\ call'.path = NoPath
        /\ filename = NoPath)
        => /\ call'.ret = "ValueError"
           /\ LogValue' = LogValue
           /\ filename' = filename
           /\ files' = files]_vars

\* save() raised on a log that holds events and has no path
C5_Witness ==
    /\ call.op = "save"
    /\ call.ret = "ValueError"
    /\ filename = NoPath
    /\ LogHasEvents

(***************************************************************************)
(* C6 (Spec).  After a save, a fresh log loaded from the saved path has a  *)
(* data snapshot equal to the saved log's.                                 *)
(***************************************************************************)
\* DailyEventMonitor(filename).data on the files as they are
FreshData ==
    LET w == __init__(Blank(files), filename, NoRef)
        c == DataAccessor(w)
    IN PyValue(c.w, c.ref)

\* log.data
DataSnapshot ==
    LET c == DataAccessor(World) IN PyValue(c.w, c.ref)

C6_RoundTrip ==
    (call.op = "save" /\ call.ret = "None") => FreshData = DataSnapshot

(***************************************************************************)
(* C7 (Spec).  In every reachable state the entries are a mapping, never   *)
(* None, and the data accessor returns a mapping.                          *)
(***************************************************************************)
C7_EntriesIsMapping ==
    /\ data \in DictIds
    /\ DataAccessor(World).ref \in DictIds

(***************************************************************************)
(* C8 (AliasSpec).  The log's mapping is never the caller's: changing the  *)
(* mapping passed to the constructor, or the mapping the data accessor     *)
(* returned, or a sequence inside either, leaves the log's entries as      *)
(* they were, and an add on the log leaves the caller's mapping as it was. *)
(***************************************************************************)
C8_NoAliasedMapping ==
    [][/\ call'.op \in {"caller_put", "caller_del"} => LogValue' = LogValue
       /\ call'.op = "add" => CallerValue' = CallerValue]_vars

\* the caller changed its mapping while the log held events
C8_Witness ==
    /\ call.op = "caller_put"
    /\ LogHasEvents
    /\ CallerValue # LogValue

(***************************************************************************)
(* C9 (AliasSpec).  A caller that changes the sequence get returned does   *)
(* not change the log's events, and a later add does not change a          *)
(* sequence the caller got earlier.                                        *)
(***************************************************************************)
C9_GetIsReadOnly ==
    [][/\ call'.op \in {"caller_append", "caller_clear"}
            => LogValue' = LogValue
       /\ call'.op = "add" => CallerItems' = CallerItems]_vars

(***************************************************************************)
(* C10 (ScanSpec).  A day whose query returns None is skipped: the log,    *)
(* and the counter, stay as they were and the scan moves to the next       *)
(* calendar day.  A day whose query returns a count has that count passed  *)
(* to add under that day's key, and then the scan moves to the next        *)
(* calendar day.                                                           *)
(***************************************************************************)
\* the day scanned moved on by exactly one calendar day
NextCalendarDay ==
    /\ IsValidDate(year', month', day')
    /\ ToOrdinal(<<year', month', day'>>)
         = ToOrdinal(<<year, month, day>>) + 1

AllNone == \A i \in 1..Len(replies) : replies[i] = NoReply

LastDay == <<MAXYEAR, 12, 31>>

\* EventMonitor(ScanPath)._data on the files as they are
ScanFresh ==
    LET w == EM_init(Blank(files), ScanPath, NoRef) IN PyValue(w, w.data)

\* the queries made so far were for successive days from LateToday on
OneDayPerQuery ==
    ToOrdinal(<<year, month, day>>)
        = ToOrdinal(LateToday) + Len(replies)
          - (IF pc = "crashed" THEN 1 ELSE 0)

HasKey(date) == data \in DictIds /\ Member(World, data, date).present

\* the file log.save(LogPath) writes
SavedDoc == save(World, LogPath).w.files[LogPath].doc

\* every key of the entries, with or without events, is in what the data
\* accessor returns and in what save writes
KeysAreShown ==
    \A date \in Dates :
        /\ DataSnapshot.members[date]
             = [present |-> HasKey(date), items |-> Items(date)]
        /\ SavedDoc.members[date]
             = [present |-> HasKey(date), items |-> DumpItems(Items(date))]

C12_GetStoresEmptyDay ==
    /\ []KeysAreShown
    /\ [][\A date \in LogDates :
            (call'.op = "get" /\ call'.date = date)
            => /\ call'.ret = "list"
               /\ Items(date)' = Items(date)
               /\ ~HasKey(date) => Items(date)' = <<>>
               /\ HasKey(date)'
               /\ \A k \in Dates \ {date} :
                     /\ HasKey(k)' = HasKey(k)
                     /\ Items(k)' = Items(k)]_vars

\* get was called for a day without events while another day held some:
\* the day has a key and an empty sequence, the other day its events
C12_Witness ==
    /\ call.op = "get"
    /\ HasKey(call.date)
    /\ Items(call.date) = <<>>
    /\ \E k \in LogDates \ {call.date} : Len(Items(k)) = MaxEvents

(***************************************************************************)
(* C13 (DaySpec).  As claimed: on every valid date prev_day and next_day   *)
(* return a date, and the other function called on that date returns the   *)
(* date the first was called on.                                           *)
(***************************************************************************)
\* a call of one function on the date the other returned gives back the
\* date the other was called on
RoundTrip ==
    \/ pc = "after_prev_day" /\ call'.op = "next_day"
    \/ pc = "after_next_day" /\ call'.op = "prev_day"

C13_Inverse ==
    [][/\ (pc = "start" /\ IsValidDate(year, month, day))
            => call'.ret = "tuple"
       /\ RoundTrip => /\ call'.ret = "tuple"
                       /\ <<year', month', day'>> = call.date]_vars

(***************************************************************************)
(* C13 (DaySpec), amended.  The same, but for the two ends of the          *)
(* calendar: prev_day of 0001-01-01 and next_day of 9999-12-31 raise       *)
(* OverflowError, so the round trip that starts with either does not       *)
(* complete.  Every other call on a valid date returns a valid date, and   *)
(* the other function called on it returns the date the first was called   *)
(* on, without raising.                                                    *)
(***************************************************************************)
LeavesCalendar(name, date) ==
    \/ name = "prev_day" /\ date = <<MINYEAR, 1, 1>>
    \/ name = "next_day" /\ date = <<MAXYEAR, 12, 31>>

C13_InverseInsideCalendar ==
    [][/\ (pc = "start" /\ IsValidDate(year, month, day))
            => /\ call'.ret = IF LeavesCalendar(call'.op, call'.date)
                              THEN "OverflowError" ELSE "tuple"
               /\ call'.ret = "tuple" => IsValidDate(year', month', day')
       /\ (pc = "start" /\ ~IsValidDate(year, month, day))
            => call'.ret = "None"
       /\ RoundTrip => /\ call'.ret = "tuple"
                       /\ <<year', month', day'>> = call.date]_vars

\* prev_day took 1 March of a leap year to 29 February, and next_day took
\* that back to 1 March
C13_Witness ==
    /\ pc = "after_prev_day_next_day"
    /\ call.op = "next_day"
    /\ call.date = <<2024, 2, 29>>
    /\ <<year, month, day>> = <<2024, 3, 1>>

(***************************************************************************)
(* C14 (Spec).  A load of a file that holds JSON returns True and leaves   *)
(* the entries equal to what json.loads builds from the file, whatever the *)
(* entries were before: no key and no event of before is kept.  The file   *)
(* is left as it was.  A log constructed with data and a file name holds   *)
(* the file's content when the file holds JSON, and the copy of data when  *)
(* it does not.                                                            *)
(***************************************************************************)
\* json.loads(f.read()), as a value
DocValue(doc) ==
    LET r == loads(Blank(files), doc) IN PyValue(r.w, r.ref)

C14_LoadReplaces ==
    /\ (call.op = "__init__" /\ call.path # NoPath)
        => LogValue = IF files[call.path].tag = "json"
                      THEN DocValue(files[call.path].doc)
                      ELSE [type |-> "dict",
                            members |-> DataOfTag(call.value)]
    /\ [][\A p \in Paths :
            (/\ call'.op = "load"
             /\ Resolved(call'.path) = p
             /\ files[p].tag = "json")
            => /\ call'.ret = "True"
               /\ LogValue' = DocValue(files[p].doc)
               /\ files' = files]_vars

\* a load succeeded; the log holds the file's one day and its one event,
\* as json.loads builds it, and nothing else
C14_Witness ==
    /\ call.op = "load"
    /\ call.ret = "True"
    /\ files[LogPath] = JsonFile(SampleDoc)
    /\ \A k \in Dates : HasKey(k) <=> k = KeySeq[1]
    /\ Items(KeySeq[1]) = <<ListEvent("2024-02-28 09:00AM", "A")>>

(***************************************************************************)
(* C15 (ScanSpec).  The driver's run, the first one included, where the    *)
(* file does not exist and the constructor's load fails: the log           *)
(* remembers the file name from construction on, so the save() that ends   *)
(* the run raises nothing and writes the entries, rendered as JSON, to     *)
(* that file; a log constructed from the same file name afterwards holds   *)
(* the same days and, day by day, the same timestamps and values in the    *)
(* same order.                                                             *)
(***************************************************************************)
\* EventMonitor(ScanPath) on the files as they are: the next run's log
NextRun == EM_init(Blank(files), ScanPath, NoRef)

C15_FirstRunSaves ==
    /\ [](/\ filename = ScanPath
          /\ pc = "saved" =>
                /\ files[ScanPath] = JsonFile(dumps(World, data))
                /\ NextRun.filename = ScanPath
                /\ NextRun.data \in DictIds
                /\ \A k \in Dates :
                      /\ Member(NextRun, NextRun.data, k).present = HasKey(k)
                      /\ DumpItems(Member(NextRun, NextRun.data, k).items)
                           = DumpItems(Items(k)))
    /\ [][call'.op = "save"
            => /\ call'.ret = "None"
               /\ pc' = "saved"
               /\ LogValue' = LogValue
               /\ files'[ScanPath] = JsonFile(dumps(World, data))]_vars

\* a first run (the file held no record of today) recorded today and
\* another day, and saved them
C15_Witness ==
    /\ pc = "saved"
    /\ call.op = "save"
    /\ replies[1] = HOPEWELL_QUARRY_MAX_OPEN \div 2
    /\ Items(Today)
         = <<TupleEvent("09:00AM", HOPEWELL_QUARRY_MAX_OPEN \div 2)>>
    /\ files[ScanPath].tag = "json"
    /\ files[ScanPath].doc.members[Today].items
         = << <<"09:00AM", HOPEWELL_QUARRY_MAX_OPEN \div 2>> >>
    /\ files[ScanPath].doc.members[KeySeq[2]].present

(***************************************************************************)
(* C16 (Spec).  add, get and save only ever extend a day's sequence at its *)
(* end: after any of them every day's sequence begins with what it was     *)
(* before.  An add changes at most the sequence of its day, by one event   *)
(* at the end, and leaves the keys and sequences of the other days, the    *)
(* remembered path and the files as they were.  A save leaves the entries  *)
(* as they were.                                                           *)
(***************************************************************************)
IsPrefix(s, t) == Len(s) <= Len(t) /\ SubSeq(t, 1, Len(s)) = s

C16_AppendOnly ==
    [][/\ call'.op \in {"add", "get", "save"}
            => \A k \in Dates : IsPrefix(Items(k), Items(k)')
       /\ \A date \in LogDates :
            (call'.op = "add" /\ call'.date = date)
            => /\ Len(Items(date)') <= Len(Items(date)) + 1
               /\ (call'.ret = "True")
                    <=> Len(Items(date)') = Len(Items(date)) + 1
               /\ \A k \in Dates \ {date} :
                     /\ HasKey(k)' = HasKey(k)
                     /\ Items(k)' = Items(k)
               /\ filename' = filename
               /\ files' = files
       /\ call'.op = "save" => LogValue' = LogValue]_vars

\* an add extended a day that already held an event, the one the file
\* holds
C16_Witness ==
    /\ call.op = "add"
    /\ call.ret = "True"
    /\ Len(Items(call.date)) = 2
    /\ files[LogPath].tag = "json"
    /\ files[LogPath].doc.members[call.date].items
         = DumpItems(SubSeq(Items(call.date), 1, 1))

(***************************************************************************)
(* C17 (RepeatSpec).  When every add passes ignore_repeat=True, no day's   *)
(* sequence ever holds two events next to each other with equal values,    *)
(* in a log that started empty and through its own saves and loads.        *)
(***************************************************************************)
C17_NoAdjacentRepeats ==
    \A k \in Dates :
        \A i \in 1..(Len(Items(k)) - 1) :
            Items(k)[i].val # Items(k)[i + 1].val

\* one day holds a value, another and the first again, and the other day
\* holds the first value too
C17_Witness ==
    /\ Len(Items(KeySeq[1])) = 3
    /\ Items(KeySeq[1])[1].val = "A"
    /\ Items(KeySeq[1])[2].val = "B"
    /\ Items(KeySeq[1])[3].val = "A"
    /\ Len(Items(KeySeq[2])) = 1
    /\ Items(KeySeq[2])[1].val = "A"
    /\ Items(KeySeq[1])[1].kind = "list"
    /\ Items(KeySeq[1])[3].kind = "tuple"

(***************************************************************************)
(* C18 (TwinSpec).  After the constructor and after every add, load and    *)
(* save, the DailyEventMonitor (used with ignore_repeat=True) and the      *)
(* EventMonitor have returned or raised the same, remember the same path,  *)
(* hold entries of the same type with the same date keys and, day by day,  *)
(* the same values in the same order, and have files with the same keys    *)
(* and values; only the timestamps may differ.                             *)
(***************************************************************************)
\* two sequences of events carry the same values in the same order
SameValues(a, b) ==
    /\ Len(a) = Len(b)
    /\ \A i \in 1..Len(a) : a[i].val = b[i].val

\* two sequences of JSON arrays [timestamp, value] likewise
SameDumpedValues(a, b) ==
    /\ Len(a) = Len(b)
    /\ \A i \in 1..Len(a) : a[i][2] = b[i][2]

\* the entries of two logs agree
SameEntries(v, w) ==
    /\ PyValue(v, v.data).type = PyValue(w, w.data).type
    /\ \A k \in Dates :
          /\ PyValue(v, v.data).members[k].present
               = PyValue(w, w.data).members[k].present
          /\ SameValues(PyValue(v, v.data).members[k].items,
                        PyValue(w, w.data).members[k].items)

\* two file systems agree
SameFiles(f, g) ==
    \A p \in Paths :
        /\ f[p].tag = g[p].tag
        /\ f[p].doc.type = g[p].doc.type
        /\ \A k \in Dates :
              /\ f[p].doc.members[k].present = g[p].doc.members[k].present
              /\ SameDumpedValues(f[p].doc.members[k].items,
                                  g[p].doc.members[k].items)

C18_VariantsAgree ==
    /\ eventMonitor.ret = call.ret
    /\ eventMonitor.w.filename = filename
    /\ SameEntries(World, eventMonitor.w)
    /\ SameFiles(files, eventMonitor.w.files)

\* both ignored a repeat of a value each had stored and saved with a
\* timestamp of its own
C18_Witness ==
    /\ call.op = "add"
    /\ call.ret = "False"
    /\ eventMonitor.ret = "False"
    /\ Len(Items(call.date)) = 1
    /\ Items(call.date)[1].kind = "tuple"
    /\ files[LogPath].tag = "json"
    /\ files[LogPath].doc.members[call.date].items
         = << <<"2024-02-28 09:00AM", call.value>> >>
    /\ eventMonitor.w.files[LogPath].doc.members[call.date].items
         = << <<"09:00AM", call.value>> >>

=============================================================================
